---- MODULE Spec2Model ----
(***************************************************************************)
(* Model of the HTTP middlewares of Good-Will/middlewares: the roundtrip   *)
(* dump middleware (NewDumpMiddleware, ResponseSnifferingWriter,           *)
(* dumpRequest, dumpResponse), the response header rewrite middleware      *)
(* (NewResponseHeaderWriteMiddlwware, rewriteResponseWriter), the request  *)
(* header rewrite middleware (NewRequestHeaderWriteMiddlwware) and         *)
(* LoggingMiddleware.                                                      *)
(*                                                                         *)
(* One behaviour is one request served by one middleware wrapped around a  *)
(* downstream handler.  The downstream handler and the real                *)
(* http.ResponseWriter are the environment: the handler reads the request  *)
(* body, sets response headers until the response has started, and calls   *)
(* WriteHeader and Write in any order; a Write of the real writer may      *)
(* fail after accepting only a prefix of its argument.  dumpAction runs    *)
(* on a goroutine of its own and may block, return or panic.               *)
(*                                                                         *)
(* SpecConc is a second specification: two GET requests in flight at once  *)
(* through one dump middleware, their statements interleaved.              *)
(***************************************************************************)
EXTENDS Integers, Sequences, FiniteSets, TLC

VARIABLES
    mw,             \* which middleware was constructed: "dump", "respHeader",
                    \* "reqHeader" or "logging"
    cfg,            \* headers map[string]string given to the header middleware
    method,         \* r.Method
    origHeader,     \* the request headers the client sent
    reqHeader,      \* r.Header
    logged,         \* the lines written by log.Println
    crashed,        \* the process was ended by a panic nothing recovered
    handlerHeader,  \* the response headers as the downstream handler set them
    origBody,       \* the body B the client sent
    rBody,          \* the bytes still unread in r.Body
    handlerRead,    \* the bytes the downstream handler has read from r.Body
    pc,             \* position of the middleware's handler function
    hw,             \* the writer handed to next.ServeHTTP: "w", "sw" or "rw"
    hpc,            \* downstream handler: "idle", "running", "done"
    nextCalls,      \* number of times next.ServeHTTP was called
    handlerWritten, \* all bytes the handler passed to Write, in order
    ret,            \* (n, err) returned by the handler's last Write
    headerCalls,    \* the statuses the handler passed to WriteHeader, in order
    realHeaderCalls,\* the statuses passed to the real writer's WriteHeader, in order
    swStatus,       \* sw.Status
    BytesBuffer,    \* sw.BytesBuffer
    RewriteHeader,  \* rw.RewriteHeader
    header,         \* the real writer's header map (w.Header())
    realStatus,     \* status the real writer sent (0: headers not sent yet)
    sentHeader,     \* headers the real writer sent with the status
    realWritten,    \* body bytes the real writer accepted, in order
    writeFailed,    \* a Write of the real writer failed or was short
    requestData,    \* *RequestDump of dumpRequest
    responseData,   \* *ResponseDump of dumpResponse
    dump,           \* the RoundtripDump
    sink,           \* the goroutine of dumpAction: "none", "spawned", "running", "done",
                    \* "panicked"
    sinkCalls,      \* number of times dumpAction has been entered
    sinkArg,        \* the record dumpAction was entered with
    events,         \* order of the major events of the request
    reqs,           \* the requests in flight at once through one dump middleware:
                    \* for each, the position and locals of its ServeHTTP call
    sniffers,       \* the ResponseSnifferingWriter values of the requests in flight
    now             \* the clock read by time.Now()

vars == <<mw, cfg, method, origHeader, reqHeader, logged, crashed, handlerHeader, origBody, rBody, handlerRead, pc, hw, hpc, nextCalls,
          handlerWritten, ret, headerCalls, realHeaderCalls, swStatus, BytesBuffer,
          RewriteHeader, header,
          realStatus, sentHeader, realWritten, writeFailed, requestData,
          responseData, dump, sink, sinkCalls, sinkArg, events, reqs, sniffers, now>>

---------------------------------------------------------------------------
(* Bounds *)

MaxChunk == 2       \* longest argument of one Write
MaxResp == 4        \* most bytes a handler writes in one response
MaxHeaderCalls == 2  \* most calls of WriteHeader by one handler

\* the byte values of the model
Bytes == {0, 1}
SeqsUpTo(S, n) == UNION {[1..k -> S] : k \in 0..n}
None == [none |-> TRUE]

---------------------------------------------------------------------------
(* http.Header: a map from header name to its list of values *)

EmptyHeader == [k \in {} |-> <<>>]

\* h[k] on a Go map: the nil slice for a missing key
Vals(h, k) == IF k \in DOMAIN h THEN h[k] ELSE <<>>

\* h[k] = v
HPut(h, k, v) == [x \in (DOMAIN h) \cup {k} |-> IF x = k THEN v ELSE h[x]]

\* http.Header.Get(k): the first value, "" when there is none
HGet(h, k) == IF Len(Vals(h, k)) > 0 THEN Vals(h, k)[1] ELSE ""

\* mutant: the values of src are added to those dst has, as Header.Add does
OverlayAppend(dst, src) ==
    [x \in (DOMAIN dst) \cup (DOMAIN src) |->
        IF x \in DOMAIN src THEN (IF x \in DOMAIN dst THEN dst[x] ELSE <<>>) \o src[x]
        ELSE dst[x]]

\* for k, v := range src { dst[k] = v }
Overlay(dst, src) ==
    [x \in (DOMAIN dst) \cup (DOMAIN src) |-> IF x \in DOMAIN src THEN src[x] ELSE dst[x]]

ContentEncoding == "Content-Encoding"
ACAO == "Access-Control-Allow-Origin"
ACAH == "Access-Control-Allow-Headers"
XFoo == "X-Foo"
Origin == "Origin"
MethodOptions == "OPTIONS"
\* r.RequestURI of the requests of the model
RequestURI == "/"
StatusOK == 200

---------------------------------------------------------------------------
(* compress/gzip, reduced to stored blocks: a member is                    *)
(*   <<GzMagic, n, d_1, ..., d_n, Checksum(d)>>                            *)
(* and a stream is one or more members.                                    *)

GzMagic == 1

RECURSIVE SumSeq(_)
SumSeq(s) == IF s = <<>> THEN 0 ELSE s[1] + SumSeq(Tail(s))

Checksum(d) == (Len(d) + SumSeq(d)) % Cardinality(Bytes)

\* gzip.NewReader reads the first member's header; it returns (nil, err)
\* when the header is missing or malformed.
NewReaderOK(b) == Len(b) >= 1 /\ b[1] = GzMagic

\* Reading a gzip.Reader to the end: the bytes inflated before the first
\* error, and that error ("nil" when the stream ended cleanly).
RECURSIVE ReadMembers(_, _)
ReadMembers(b, first) ==
    IF b = <<>> THEN [data |-> <<>>, err |-> IF first THEN "EOF" ELSE "nil"]
    ELSE IF b[1] # GzMagic THEN [data |-> <<>>, err |-> "ErrHeader"]
    ELSE IF Len(b) < 2 THEN [data |-> <<>>, err |-> "ErrUnexpectedEOF"]
    ELSE LET n == b[2]
             avail == Len(b) - 2
         IN  IF avail < n
             THEN [data |-> SubSeq(b, 3, Len(b)), err |-> "ErrUnexpectedEOF"]
             ELSE LET d == SubSeq(b, 3, 2 + n)
                  IN  IF avail < n + 1 THEN [data |-> d, err |-> "ErrUnexpectedEOF"]
                      ELSE IF b[3 + n] # Checksum(d) THEN [data |-> d, err |-> "ErrChecksum"]
                      ELSE LET rest == ReadMembers(SubSeq(b, 4 + n, Len(b)), FALSE)
                           IN  [data |-> d \o rest.data, err |-> rest.err]

---------------------------------------------------------------------------
(* The real http.ResponseWriter w, as the middlewares use it *)

\* w.WriteHeader(status): the first status is sent, later ones are ignored
RealStatusAfter(rs, status) == IF rs = 0 THEN status ELSE rs

\* the headers go out with the first status, as the map stands at that moment
SentAfter(rs, sent, h) == IF rs = 0 THEN h ELSE sent

\* outcomes of w.Write(b): all of b accepted, or n < len(b) bytes accepted
\* with an error; once a write has failed the connection is broken and
\* accepts nothing more
RealOutcomes(b, failed) ==
    IF failed THEN {[n |-> 0, err |-> "werr"]}
    ELSE {[n |-> Len(b), err |-> "nil"]}
             \cup {[n |-> k, err |-> "werr"] : k \in 0..(Len(b) - 1)}

---------------------------------------------------------------------------
(* ResponseSnifferingWriter *)

\* NewResponseSnifferingWriter: Status is left at its zero value
NewSnifferStatus == 0

\* NewResponseSnifferingWriter: bytes.NewBuffer(nil)
NewSnifferBuffer == <<>>

\* mutant: only the first WriteHeader is recorded
SnifferStatusFirst(old, status) == IF old = 0 THEN status ELSE old

\* WriteHeader: w.Status = status
SnifferStatusAfter(old, status) == status

\* the status ResponseSnifferingWriter.WriteHeader forwards to the real writer
SnifferForwardedStatus(status) == status

\* Write: io.MultiWriter(BytesBuffer, realWriter) writes b to the buffer
\* first, which never fails, and then to the real writer, whatever the
\* outcome out of the real writer is
BufferAfterWrite(buf, b, out) == buf \o b

\* the bytes io.MultiWriter hands to the real writer
ForwardedBytes(b) == b

\* Write: what io.MultiWriter returns
MultiWriteRet(b, out) ==
    IF out.err # "nil" THEN out
    ELSE IF out.n # Len(b) THEN [n |-> out.n, err |-> "ErrShortWrite"]
    ELSE [n |-> Len(b), err |-> "nil"]

---------------------------------------------------------------------------
(* dumpRequest *)

\* ioutil.ReadAll(r.Body): every byte left in the stream
ReadAllBody(stream) == stream

\* mutant: the drained r.Body is left in place
RestoredBodyDrained(bodyBuf) == <<>>

\* r.Body = ioutil.NopCloser(bytes.NewBuffer(bodyBuf))
RestoredBody(bodyBuf) == bodyBuf

RequestDumpOf(m, h, bodyBuf) ==
    [Method |-> m, Target |-> RequestURI, Protocol |-> "HTTP/1.1", Headers |-> h, Body |-> bodyBuf]

---------------------------------------------------------------------------
(* dumpResponse *)

\* reader, _ = gzip.NewReader(reader) stores a nil *gzip.Reader in the
\* io.Reader when NewReader fails; ioutil.ReadAll then calls Read on it,
\* which dereferences nil
DumpResponsePanics(h, b) == HGet(h, ContentEncoding) = "gzip" /\ ~NewReaderOK(b)

\* mutant: the captured bytes are never decoded
DumpBodyRaw(h, b) == b

\* mutant: the captured bytes are decoded whatever Content-Encoding says
DumpBodyAlwaysGunzip(h, b) == ReadMembers(b, TRUE).data

\* switch headers.Get("Content-Encoding"); b, _ = ioutil.ReadAll(reader)
DumpBody(h, b) ==
    IF HGet(h, ContentEncoding) = "gzip" THEN ReadMembers(b, TRUE).data ELSE b

RECURSIVE ConcatValues(_)
ConcatValues(v) == IF v = <<>> THEN "" ELSE v[1] \o ConcatValues(Tail(v))

\* rStruct.Headers[k] += vv for every value vv of every key k
FlattenHeaders(h) == [k \in DOMAIN h |-> ConcatValues(h[k])]

\* StatusCode: sw.Status
DumpStatus(status) == status

ResponseDumpOf(h, b, status) ==
    [Headers |-> FlattenHeaders(h), Body |-> DumpBody(h, b), StatusCode |-> DumpStatus(status)]

---------------------------------------------------------------------------
(* Header rewrite *)

\* castToHeader(c): every value becomes a list of one value
castToHeader(c) == [k \in DOMAIN c |-> <<c[k]>>]

\* mutant: the response overlay is the configuration as it stands
castToHeaderVerbatim(c, rh) == castToHeader(c)

\* castToHeaderForRequest(c, r)
castToHeaderForRequest(c, rh) ==
    [k \in DOMAIN c |-> IF k = ACAO /\ c[k] = "*" THEN Vals(rh, Origin) ELSE <<c[k]>>]

\* mutant: the overlay's values are added to the values the header has
RewrittenHeaderAdd(h, rewrite) ==
    LET h1 == OverlayAppend(h, rewrite)
    IN  IF Len(Vals(h1, ACAO)) > 0 /\ Len(Vals(h1, ACAH)) = 0
        THEN HPut(h1, ACAH, <<"*">>)
        ELSE h1

\* rewriteResponseWriter.WriteHeader, up to the call of the real WriteHeader
RewrittenHeader(h, rewrite) ==
    LET h1 == Overlay(h, rewrite)
    IN  IF Len(Vals(h1, ACAO)) > 0 /\ Len(Vals(h1, ACAH)) = 0
        THEN HPut(h1, ACAH, <<"*">>)
        ELSE h1

\* rewriteResponseWriter.Write: straight to the real writer's Write
HeaderAtWrite(h, rewrite) == h

---------------------------------------------------------------------------
(* NewDumpMiddleware *)

\* mutant: the method is not looked at
IsCapturedAlways(m) == TRUE

\* if r.Method != http.MethodOptions
IsCaptured(m) == m # MethodOptions

\* mutant: go dumpAction(&dump) comes before next.ServeHTTP(&sw, r)
NextPcSinkFirst(p) ==
    CASE p = "sniff" -> "dumpRequest"
      [] p = "dumpRequest" -> "go"
      [] p = "go" -> "next"
      [] p = "next" -> "dumpResponse"
      [] p = "dumpResponse" -> "assemble"
      [] p = "assemble" -> "returned"

\* mutant: the captured branch never calls next.ServeHTTP(&sw, r)
NextPcSkipNext(p) ==
    CASE p = "sniff" -> "dumpRequest"
      [] p = "dumpRequest" -> "dumpResponse"
      [] p = "next" -> "dumpResponse"
      [] p = "dumpResponse" -> "assemble"
      [] p = "assemble" -> "go"
      [] p = "go" -> "returned"

\* the statements of the captured branch, in program order: after each
\* position, the position that follows it
NextPc(p) ==
    CASE p = "sniff" -> "dumpRequest"
      [] p = "dumpRequest" -> "next"
      [] p = "next" -> "dumpResponse"
      [] p = "dumpResponse" -> "assemble"
      [] p = "assemble" -> "go"
      [] p = "go" -> "returned"

---------------------------------------------------------------------------
(* Inputs *)

Methods == {"GET", MethodOptions}
Codes == {StatusOK, 404}
ReqHeaders == {EmptyHeader, (Origin :> <<"o1">>)}
\* requests to the request header middleware: X-Foo with no value, one
\* value, several values, next to another header
ReqHeadersXFoo ==
    {(Origin :> <<"o1">>),
     (Origin :> <<"o1">>) @@ (XFoo :> <<"a">>),
     (Origin :> <<"o1">>) @@ (XFoo :> <<"a", "b">>)}
\* the request headers sent to each middleware
ReqHeadersOf(m) ==
    CASE m = "respHeader" -> ReqHeaders
      [] m = "reqHeader" -> ReqHeadersXFoo
      [] OTHER -> {EmptyHeader}
Configs == {(ACAO :> "*"), (XFoo :> "bar"), (ACAO :> "*") @@ (XFoo :> "bar")}
\* request bodies: empty, one byte, several bytes
Bodies == {<<>>, <<0>>, <<1, 0>>}

\* the arguments of Write a handler behind each middleware uses: the header
\* middleware never looks at the bytes
Chunks(m) == IF m = "dump" THEN SeqsUpTo(Bytes, MaxChunk) \ {<<>>} ELSE {<<0>>}

\* the response headers a handler behind each middleware sets
HandlerHeaders(m) ==
    CASE m = "dump" -> {<<ContentEncoding, <<"gzip">>>>, <<ContentEncoding, <<"br">>>>}
      [] m = "respHeader" -> {<<ACAO, <<"h">>>>, <<ACAH, <<"h">>>>, <<XFoo, <<"h">>>>}
      [] OTHER -> {<<XFoo, <<"h">>>>}

\* requests served at the same time by the handler NewDumpMiddleware returned
Reqs == {1, 2}

\* the byte request i carries in its body and its handler writes
ReqByte(i) == i - 1
ConcBody(i) == <<ReqByte(i)>>

\* a ServeHTTP call that has not started: r, w and the locals sw,
\* requestData, responseData, dump
NewRequest ==
    [pc |-> "entry", written |-> <<>>, calls |-> <<>>, realStatus |-> 0, realWritten |-> <<>>,
     requestData |-> None, responseData |-> None, dump |-> None, sink |-> "none",
     sinkArg |-> None]

\* mutant: one ResponseSnifferingWriter made when the middleware is built
SnifferShared(i) == 1

\* sw := NewResponseSnifferingWriter(w) is inside the handler function: the
\* call serving request i has a sniffer of its own
SnifferOf(i) == i

ConcIdle ==
    /\ reqs = [i \in Reqs |-> NewRequest]
    /\ sniffers = [i \in Reqs |-> None]
    /\ now = 0

Init ==
    /\ ConcIdle
    /\ mw \in {"dump", "respHeader", "reqHeader", "logging"}
    /\ cfg \in IF mw \in {"respHeader", "reqHeader"} THEN Configs ELSE {EmptyHeader}
    /\ method \in IF mw = "dump" THEN Methods ELSE {"GET"}
    /\ origHeader \in ReqHeadersOf(mw)
    /\ reqHeader = origHeader
    /\ logged = <<>>
    /\ crashed = FALSE
    /\ handlerHeader = EmptyHeader
    /\ origBody \in IF mw = "dump" THEN Bodies ELSE {<<>>}
    /\ rBody = origBody
    /\ handlerRead = <<>>
    /\ pc = "entry"
    /\ hw = "w"
    /\ hpc = "idle"
    /\ nextCalls = 0
    /\ handlerWritten = <<>>
    /\ ret = [n |-> 0, err |-> "nil"]
    /\ headerCalls = <<>>
    /\ realHeaderCalls = <<>>
    /\ swStatus = 0
    /\ BytesBuffer = <<>>
    /\ RewriteHeader = EmptyHeader
    /\ header = EmptyHeader
    /\ realStatus = 0
    /\ sentHeader = EmptyHeader
    /\ realWritten = <<>>
    /\ writeFailed = FALSE
    /\ requestData = None
    /\ responseData = None
    /\ dump = None
    /\ sink = "none"
    /\ sinkCalls = 0
    /\ sinkArg = None
    /\ events = <<>>

---------------------------------------------------------------------------
(* Steps of the middlewares *)

concVars == <<reqs, sniffers, now>>
reqVars == <<mw, cfg, method, origHeader, origBody>>
envVars == <<reqHeader, logged, crashed, handlerHeader>>
callVars == <<headerCalls, realHeaderCalls>>
bodyVars == <<rBody, handlerRead>>
realVars == <<header, realStatus, sentHeader, realWritten, writeFailed>>
realBody == <<header, realWritten, writeFailed>>
swVars == <<swStatus, BytesBuffer>>
dumpVars == <<requestData, responseData, dump>>
sinkVars == <<sink, sinkCalls, sinkArg>>

\* the middleware's function returns to the server, which ends the response:
\* the status 200 and the headers go out if nothing was sent before
ReturnToServer ==
    /\ pc' = "returned"
    /\ realStatus' = RealStatusAfter(realStatus, StatusOK)
    /\ sentHeader' = SentAfter(realStatus, sentHeader, header)

\* moving to position p; at "next" the downstream handler is called
GoTo(p) ==
    /\ IF p = "returned" THEN ReturnToServer
       ELSE pc' = p /\ UNCHANGED <<realStatus, sentHeader>>
    /\ IF p = "next"
       THEN hpc' = "running" /\ nextCalls' = nextCalls + 1
       ELSE UNCHANGED <<hpc, nextCalls>>

\* NewDumpMiddleware: the branch on r.Method, and sw := NewResponseSnifferingWriter(w)
DumpEnter ==
    /\ mw = "dump" /\ pc = "entry"
    /\ IF IsCaptured(method)
       THEN /\ swStatus' = NewSnifferStatus
            /\ BytesBuffer' = NewSnifferBuffer
            /\ hw' = "sw"
            /\ GoTo(NextPc("sniff"))
       ELSE /\ hw' = "w"
            /\ GoTo("next")
            /\ UNCHANGED swVars
    /\ UNCHANGED <<concVars, reqVars, envVars, bodyVars, handlerWritten, ret, callVars, RewriteHeader, realBody,
                   dumpVars, sinkVars, events>>

\* requestData := dumpRequest(r)
DumpRequest ==
    /\ pc = "dumpRequest"
    /\ LET bodyBuf == ReadAllBody(rBody)
       IN  /\ rBody' = RestoredBody(bodyBuf)
           /\ requestData' = RequestDumpOf(method, reqHeader, bodyBuf)
    /\ GoTo(NextPc(pc))
    /\ UNCHANGED <<concVars, reqVars, envVars, handlerRead, hw, handlerWritten, ret, callVars, swVars, RewriteHeader,
                   realBody, responseData, dump, sinkVars, events>>

\* responseData := dumpResponse(&sw)
DumpResponse ==
    /\ pc = "dumpResponse"
    /\ IF DumpResponsePanics(header, BytesBuffer)
       THEN /\ pc' = "panicked"
            /\ UNCHANGED <<hpc, nextCalls, realStatus, sentHeader, responseData, events>>
       ELSE /\ responseData' = ResponseDumpOf(header, BytesBuffer, swStatus)
            /\ events' = Append(events, "dumpResponse")
            /\ GoTo(NextPc(pc))
    /\ UNCHANGED <<concVars, reqVars, envVars, bodyVars, hw, handlerWritten, ret, callVars, swVars, RewriteHeader,
                   realBody, requestData, dump, sinkVars>>

\* dump := RoundtripDump{Timestamp: time.Now(), Request: ..., Response: ...}
Assemble ==
    /\ pc = "assemble"
    /\ dump' = [Timestamp |-> Len(events) + 1, Request |-> requestData,
                Response |-> responseData]
    /\ events' = Append(events, "timestamp")
    /\ GoTo(NextPc(pc))
    /\ UNCHANGED <<concVars, reqVars, envVars, bodyVars, hw, handlerWritten, ret, callVars, swVars, RewriteHeader,
                   realBody, requestData, responseData, sinkVars>>

\* go dumpAction(&dump)
Go ==
    /\ pc = "go"
    /\ sink' = "spawned"
    /\ events' = Append(events, "go")
    /\ GoTo(NextPc(pc))
    /\ UNCHANGED <<concVars, reqVars, envVars, bodyVars, hw, handlerWritten, ret, callVars, swVars, RewriteHeader,
                   realBody, dumpVars, sinkCalls, sinkArg>>

\* the goroutine enters dumpAction
SinkStart ==
    /\ sink = "spawned"
    /\ sink' = "running"
    /\ sinkCalls' = sinkCalls + 1
    /\ sinkArg' = dump
    /\ events' = Append(events, "sinkStart")
    /\ UNCHANGED <<concVars, reqVars, envVars, bodyVars, pc, hw, hpc, nextCalls, handlerWritten, ret, callVars, swVars,
                   RewriteHeader, realVars, dumpVars>>

\* dumpAction returns
SinkReturn ==
    /\ sink = "running"
    /\ sink' = "done"
    /\ UNCHANGED <<concVars, reqVars, envVars, bodyVars, pc, hw, hpc, nextCalls, handlerWritten, ret, callVars, swVars,
                   RewriteHeader, realVars, dumpVars, sinkCalls, sinkArg, events>>

\* dumpAction panics: go dumpAction(&dump) runs it on a goroutine of its own
\* with no recover, and a panic that unwinds a goroutine ends the process
SinkPanic ==
    /\ sink = "running"
    /\ sink' = "panicked"
    /\ crashed' = TRUE
    /\ UNCHANGED <<concVars, reqVars, reqHeader, logged, handlerHeader, bodyVars, pc, hw, hpc, nextCalls,
                   handlerWritten, ret, callVars, swVars, RewriteHeader, realVars, dumpVars,
                   sinkCalls, sinkArg, events>>

\* NewResponseHeaderWriteMiddlwware: rewriteHeader and rw, then next.ServeHTTP(rw, r)
RewriteEnter ==
    /\ mw = "respHeader" /\ pc = "entry"
    /\ RewriteHeader' = castToHeaderForRequest(cfg, reqHeader)
    /\ hw' = "rw"
    /\ GoTo("next")
    /\ UNCHANGED <<concVars, reqVars, envVars, bodyVars, handlerWritten, ret, callVars, swVars, realBody, dumpVars,
                   sinkVars, events>>

\* NewRequestHeaderWriteMiddlwware: r.Header[k] = v for every k, v of
\* castToHeader(headers), then next.ServeHTTP(w, r)
RequestHeaderEnter ==
    /\ mw = "reqHeader" /\ pc = "entry"
    /\ reqHeader' = Overlay(reqHeader, castToHeader(cfg))
    /\ hw' = "w"
    /\ GoTo("next")
    /\ UNCHANGED <<concVars, reqVars, logged, crashed, handlerHeader, bodyVars, handlerWritten, ret,
                   callVars, swVars, RewriteHeader, realBody, dumpVars, sinkVars, events>>

\* LoggingMiddleware: log.Println(r.RequestURI), then next.ServeHTTP(w, r)
LoggingEnter ==
    /\ mw = "logging" /\ pc = "entry"
    /\ logged' = Append(logged, RequestURI)
    /\ hw' = "w"
    /\ GoTo("next")
    /\ UNCHANGED <<concVars, reqVars, reqHeader, crashed, handlerHeader, bodyVars, handlerWritten, ret,
                   callVars, swVars, RewriteHeader, realBody, dumpVars, sinkVars, events>>

---------------------------------------------------------------------------
(* Steps of the downstream handler, next.ServeHTTP(hw, r) *)

Running == pc = "next" /\ hpc = "running" /\ ~crashed

\* a run of handler calls to WriteHeader and Write is one "write" event
WriteEvent ==
    IF events # <<>> /\ events[Len(events)] = "write" THEN events ELSE Append(events, "write")

\* the handler reads n more bytes of r.Body
HandlerReadBody ==
    /\ Running
    /\ \E n \in 1..Len(rBody) :
         /\ handlerRead' = handlerRead \o SubSeq(rBody, 1, n)
         /\ rBody' = SubSeq(rBody, n + 1, Len(rBody))
    /\ UNCHANGED <<concVars, reqVars, envVars, pc, hw, hpc, nextCalls, handlerWritten, ret, callVars, swVars,
                   RewriteHeader, realVars, dumpVars, sinkVars, events>>

\* the handler sets a response header, hw.Header()[k] = v, before it starts
\* the response (the real writer ignores later changes)
HandlerSetHeader ==
    /\ Running
    /\ realStatus = 0
    /\ \E kv \in HandlerHeaders(mw) :
         /\ Vals(header, kv[1]) # kv[2]
         /\ header' = HPut(header, kv[1], kv[2])
         /\ handlerHeader' = HPut(handlerHeader, kv[1], kv[2])
    /\ UNCHANGED <<concVars, reqVars, reqHeader, logged, crashed, bodyVars, pc, hw, hpc, nextCalls, handlerWritten, ret, callVars, swVars,
                   RewriteHeader, realStatus, sentHeader, realWritten, writeFailed,
                   dumpVars, sinkVars, events>>

\* the handler calls hw.WriteHeader(code): ResponseSnifferingWriter.WriteHeader,
\* rewriteResponseWriter.WriteHeader or the real writer's
HandlerWriteHeader ==
    /\ Running
    /\ Len(headerCalls) < MaxHeaderCalls
    /\ \E code \in Codes :
         LET h1 == IF hw = "rw" THEN RewrittenHeader(header, RewriteHeader) ELSE header
             fwd == IF hw = "sw" THEN SnifferForwardedStatus(code) ELSE code
         IN  /\ swStatus' = IF hw = "sw" THEN SnifferStatusAfter(swStatus, code) ELSE swStatus
             /\ headerCalls' = Append(headerCalls, code)
             /\ realHeaderCalls' = Append(realHeaderCalls, fwd)
             /\ header' = h1
             /\ realStatus' = RealStatusAfter(realStatus, fwd)
             /\ sentHeader' = SentAfter(realStatus, sentHeader, h1)
    /\ events' = WriteEvent
    /\ UNCHANGED <<concVars, reqVars, envVars, bodyVars, pc, hw, hpc, nextCalls, handlerWritten, ret,
                   BytesBuffer, RewriteHeader, realWritten, writeFailed, dumpVars, sinkVars>>

\* the handler calls hw.Write(b): ResponseSnifferingWriter.Write,
\* rewriteResponseWriter.Write or the real writer's
HandlerWrite ==
    /\ Running
    /\ \E b \in Chunks(mw) :
         /\ Len(handlerWritten) + Len(b) <= MaxResp
         /\ LET fwd == IF hw = "sw" THEN ForwardedBytes(b) ELSE b
                h1 == IF hw = "rw" THEN HeaderAtWrite(header, RewriteHeader) ELSE header
            IN  \E out \in RealOutcomes(fwd, writeFailed) :
                  /\ handlerWritten' = handlerWritten \o b
                  /\ BytesBuffer' = IF hw = "sw" THEN BufferAfterWrite(BytesBuffer, b, out)
                                    ELSE BytesBuffer
                  /\ ret' = IF hw = "sw" THEN MultiWriteRet(b, out) ELSE out
                  /\ header' = h1
                  /\ realStatus' = RealStatusAfter(realStatus, StatusOK)
                  /\ sentHeader' = SentAfter(realStatus, sentHeader, h1)
                  /\ realWritten' = realWritten \o SubSeq(fwd, 1, out.n)
                  /\ writeFailed' = (writeFailed \/ out.n < Len(fwd) \/ out.err # "nil")
    /\ events' = WriteEvent
    /\ UNCHANGED <<concVars, reqVars, envVars, bodyVars, pc, hw, hpc, nextCalls, callVars, swStatus, RewriteHeader,
                   dumpVars, sinkVars>>

\* the handler returns to the middleware that called it
HandlerReturn ==
    /\ Running
    /\ hpc' = "done"
    /\ IF hw = "sw"
       THEN pc' = NextPc(pc) /\ UNCHANGED <<realStatus, sentHeader>>
       ELSE ReturnToServer
    /\ events' = Append(events, "handlerReturn")
    /\ UNCHANGED <<concVars, reqVars, envVars, bodyVars, hw, nextCalls, handlerWritten, ret, callVars, swVars,
                   RewriteHeader, realBody, dumpVars, sinkVars>>

---------------------------------------------------------------------------

Next ==
    \/ DumpEnter
    \/ DumpRequest
    \/ HandlerReadBody
    \/ HandlerSetHeader
    \/ HandlerWriteHeader
    \/ HandlerWrite
    \/ HandlerReturn
    \/ DumpResponse
    \/ Assemble
    \/ Go
    \/ SinkStart
    \/ SinkReturn
    \/ SinkPanic
    \/ RewriteEnter
    \/ RequestHeaderEnter
    \/ LoggingEnter

Spec == Init /\ [][Next]_vars

\* the Go scheduler runs every goroutine that can run: the middleware's own
\* statements and the goroutine of dumpAction are taken when enabled
FairSpec ==
    /\ Spec
    /\ WF_vars(DumpEnter) /\ WF_vars(DumpRequest) /\ WF_vars(HandlerReturn)
    /\ WF_vars(DumpResponse) /\ WF_vars(Assemble) /\ WF_vars(Go) /\ WF_vars(SinkStart)

TypeOK ==
    /\ pc \in {"entry", "dumpRequest", "next", "dumpResponse", "assemble", "go",
               "returned", "panicked"}
    /\ hw \in {"w", "sw", "rw"}
    /\ hpc \in {"idle", "running", "done"}
    /\ sink \in {"none", "spawned", "running", "done", "panicked"}
    /\ crashed \in BOOLEAN

---------------------------------------------------------------------------
(* Several GET requests served at once by one dump middleware: net/http    *)
(* runs each request's ServeHTTP call on a goroutine of its own, and the   *)
(* statements of the calls interleave.                                     *)

mainVars == <<reqVars, envVars, bodyVars, pc, hw, hpc, nextCalls, handlerWritten, ret, callVars,
              swVars, RewriteHeader, realVars, dumpVars, sinkVars, events>>

\* sw := NewResponseSnifferingWriter(w)
ConcEnter(i) ==
    /\ reqs[i].pc = "entry"
    /\ sniffers' = [sniffers EXCEPT ![SnifferOf(i)] =
                        [Status |-> NewSnifferStatus, BytesBuffer |-> NewSnifferBuffer]]
    /\ reqs' = [reqs EXCEPT ![i].pc = NextPc("sniff")]
    /\ UNCHANGED <<now, mainVars>>

\* requestData := dumpRequest(r)
ConcDumpRequest(i) ==
    /\ reqs[i].pc = "dumpRequest"
    /\ reqs' = [reqs EXCEPT ![i].requestData =
                                RequestDumpOf("GET", EmptyHeader, ReadAllBody(ConcBody(i))),
                            ![i].pc = NextPc("dumpRequest")]
    /\ UNCHANGED <<sniffers, now, mainVars>>

\* the handler of request i calls sw.WriteHeader(code)
ConcWriteHeader(i) ==
    /\ reqs[i].pc = "next"
    /\ Len(reqs[i].calls) < MaxHeaderCalls
    /\ \E code \in Codes :
         /\ sniffers' = [sniffers EXCEPT ![SnifferOf(i)].Status =
                             SnifferStatusAfter(sniffers[SnifferOf(i)].Status, code)]
         /\ reqs' = [reqs EXCEPT ![i].calls = Append(@, code),
                                 ![i].realStatus =
                                     RealStatusAfter(@, SnifferForwardedStatus(code))]
    /\ UNCHANGED <<now, mainVars>>

\* the handler of request i calls sw.Write with its byte; the real writer
\* accepts it
ConcWrite(i) ==
    /\ reqs[i].pc = "next"
    /\ Len(reqs[i].written) < MaxChunk
    /\ LET b == <<ReqByte(i)>>
           out == [n |-> Len(b), err |-> "nil"]
       IN  /\ sniffers' = [sniffers EXCEPT ![SnifferOf(i)].BytesBuffer =
                               BufferAfterWrite(sniffers[SnifferOf(i)].BytesBuffer, b, out)]
           /\ reqs' = [reqs EXCEPT ![i].written = @ \o b,
                                   ![i].realWritten = @ \o ForwardedBytes(b),
                                   ![i].realStatus = RealStatusAfter(@, StatusOK)]
    /\ UNCHANGED <<now, mainVars>>

\* next.ServeHTTP(&sw, r) returns
ConcHandlerReturn(i) ==
    /\ reqs[i].pc = "next"
    /\ reqs' = [reqs EXCEPT ![i].pc = NextPc("next")]
    /\ UNCHANGED <<sniffers, now, mainVars>>

\* responseData := dumpResponse(&sw); the handlers set no Content-Encoding
ConcDumpResponse(i) ==
    /\ reqs[i].pc = "dumpResponse"
    /\ reqs' = [reqs EXCEPT ![i].responseData =
                                ResponseDumpOf(EmptyHeader, sniffers[SnifferOf(i)].BytesBuffer,
                                               sniffers[SnifferOf(i)].Status),
                            ![i].pc = NextPc("dumpResponse")]
    /\ UNCHANGED <<sniffers, now, mainVars>>

\* dump := RoundtripDump{Timestamp: time.Now(), Request: ..., Response: ...}
ConcAssemble(i) ==
    /\ reqs[i].pc = "assemble"
    /\ reqs' = [reqs EXCEPT ![i].dump = [Timestamp |-> now,
                                         Request |-> reqs[i].requestData,
                                         Response |-> reqs[i].responseData],
                            ![i].pc = NextPc("assemble")]
    /\ now' = now + 1
    /\ UNCHANGED <<sniffers, mainVars>>

\* go dumpAction(&dump), and the return to the server
ConcGo(i) ==
    /\ reqs[i].pc = "go"
    /\ reqs' = [reqs EXCEPT ![i].sink = "spawned",
                            ![i].pc = NextPc("go"),
                            ![i].realStatus = RealStatusAfter(@, StatusOK)]
    /\ UNCHANGED <<sniffers, now, mainVars>>

\* the goroutine of request i enters dumpAction
ConcSinkStart(i) ==
    /\ reqs[i].sink = "spawned"
    /\ reqs' = [reqs EXCEPT ![i].sink = "running", ![i].sinkArg = reqs[i].dump]
    /\ UNCHANGED <<sniffers, now, mainVars>>

\* the requests are GET requests to the dump middleware
InitConc ==
    /\ Init
    /\ mw = "dump" /\ method = "GET" /\ origBody = <<>>

NextConc ==
    \/ \E i \in Reqs : ConcEnter(i)
    \/ \E i \in Reqs : ConcDumpRequest(i)
    \/ \E i \in Reqs : ConcWriteHeader(i)
    \/ \E i \in Reqs : ConcWrite(i)
    \/ \E i \in Reqs : ConcHandlerReturn(i)
    \/ \E i \in Reqs : ConcDumpResponse(i)
    \/ \E i \in Reqs : ConcAssemble(i)
    \/ \E i \in Reqs : ConcGo(i)
    \/ \E i \in Reqs : ConcSinkStart(i)

SpecConc == InitConc /\ [][NextConc]_vars

---------------------------------------------------------------------------
(* Properties *)

Captured == mw = "dump" /\ IsCaptured(method)

IsPrefix(a, b) == Len(a) <= Len(b) /\ a = SubSeq(b, 1, Len(a))

\* an encoder for the gzip stream of one member holding the plaintext t
GzipEncode(t) == <<GzMagic, Len(t)>> \o t \o <<Checksum(t)>>

\* the plaintexts of one member: the length is one byte
Plaintexts == SeqsUpTo(Bytes, 1)

\* C1: whatever Write calls the handler has made on a ResponseSnifferingWriter,
\* failed and short writes of the real writer included, the bytes the real
\* writer received are the bytes in BytesBuffer.
C1_TeeEqual == hw = "sw" => realWritten = BytesBuffer

\* C2: in the record of a captured request whose handler never called
\* WriteHeader and called Write, StatusCode is the real writer's default 200.
C2_DefaultStatus ==
    (Captured /\ dump # None /\ headerCalls = <<>> /\ handlerWritten # <<>>)
        => dump.Response.StatusCode = StatusOK

\* C3: with the overlay Access-Control-Allow-Origin: * and a request with
\* Origin: o1, the headers the real writer sent have Access-Control-Allow-Origin
\* equal to o1, and Access-Control-Allow-Headers equal to * unless the handler
\* set it, whether the handler called WriteHeader or only Write.
C3_OriginEcho ==
    (/\ mw = "respHeader"
     /\ ACAO \in DOMAIN cfg /\ cfg[ACAO] = "*"
     /\ Vals(reqHeader, Origin) = <<"o1">>
     /\ realStatus # 0 /\ hpc = "done" /\ (headerCalls # <<>> \/ handlerWritten # <<>>))
        => /\ Vals(sentHeader, ACAO) = <<"o1">>
           /\ Vals(sentHeader, ACAH) \in {<<"*">>, <<"h">>}

\* C4: once the dump middleware's function has ended for a captured request
\* whose handler returned, dumpAction's goroutine has been started, and
\* dumpAction is never entered more than once.
C4_SinkExactlyOnce ==
    (Captured /\ hpc = "done")
        => /\ sinkCalls <= 1
           /\ pc \in {"returned", "panicked"} => sink # "none"

\* C5: when the response declares Content-Encoding: gzip and the captured
\* bytes are not a gzip stream, dumpResponse does not abort: the middleware
\* goes on to produce the record and what the client got is unchanged.
C5_DecodeFailureSwallowed ==
    (/\ Captured /\ hpc = "done" /\ pc # "dumpResponse"
     /\ HGet(header, ContentEncoding) = "gzip"
     /\ ReadMembers(BytesBuffer, TRUE).err # "nil")
        => /\ pc # "panicked"
           /\ responseData # None
           /\ realWritten = SubSeq(handlerWritten, 1, Len(realWritten))

\* C6: an OPTIONS request through the dump middleware produces no record and
\* no sink invocation, and the handler is given the real writer, not a
\* ResponseSnifferingWriter.
C6_OptionsBypass ==
    (mw = "dump" /\ method = MethodOptions)
        => /\ sink = "none" /\ sinkCalls = 0
           /\ dump = None /\ requestData = None /\ responseData = None
           /\ hpc # "idle" => hw = "w"
           /\ BytesBuffer = <<>> /\ swStatus = 0
           /\ pc \notin {"dumpRequest", "dumpResponse", "assemble", "go", "panicked"}

C6_Witness ==
    /\ mw = "dump" /\ method = MethodOptions /\ pc = "returned"
    /\ nextCalls = 1 /\ handlerWritten # <<>> /\ realWritten = handlerWritten
    /\ headerCalls # <<>>

\* C7: after dumpRequest the handler reads exactly the body B from its start
\* (what it has read followed by what is left to read is B), and the
\* RequestDump's Body is B.
C7_BodyRestored ==
    (Captured /\ requestData # None)
        => /\ requestData.Body = origBody
           /\ handlerRead \o rBody = origBody
           /\ hpc = "running" /\ handlerRead = <<>> => rBody = origBody

C7_Witness ==
    /\ Captured /\ requestData # None /\ hpc = "done"
    /\ Len(origBody) > 1 /\ handlerRead = origBody /\ requestData.Body = origBody

\* C8: when the response has Content-Encoding: gzip and the bytes P the
\* handler wrote are the gzip encoding of a plaintext T, the ResponseDump's
\* Body is T, and the real writer, having accepted every write, holds P.
C8_GzipDecoded ==
    \A t \in Plaintexts :
        (/\ Captured /\ responseData # None
         /\ HGet(header, ContentEncoding) = "gzip"
         /\ handlerWritten = GzipEncode(t))
            => /\ responseData.Body = t
               /\ ~writeFailed => realWritten = GzipEncode(t)

C8_Witness ==
    /\ Captured /\ responseData # None
    /\ HGet(header, ContentEncoding) = "gzip"
    /\ \E t \in Plaintexts :
         /\ t # <<>>
         /\ handlerWritten = GzipEncode(t)
         /\ responseData.Body = t
         /\ realWritten = GzipEncode(t)

\* C9: when the response has no Content-Encoding header, or one that is not
\* gzip, the ResponseDump's Body is the concatenation of the bytes the
\* handler wrote.
C9_RawBody ==
    (Captured /\ responseData # None /\ HGet(header, ContentEncoding) # "gzip")
        => responseData.Body = handlerWritten

C9_Witness ==
    /\ Captured /\ responseData # None
    /\ HGet(header, ContentEncoding) = "br"
    /\ NewReaderOK(handlerWritten) /\ Len(handlerWritten) > MaxChunk
    /\ responseData.Body = handlerWritten

\* C10: for a captured request the events come in this order: the handler's
\* writes to the real writer, the handler's return, the response snapshot,
\* the one timestamp, the go statement, the start of dumpAction.
EventOrder == <<"write", "handlerReturn", "dumpResponse", "timestamp", "go", "sinkStart">>

C10_Ordering ==
    Captured =>
        /\ IsPrefix(events, EventOrder) \/ IsPrefix(events, Tail(EventOrder))
        /\ sink # "none" => hpc = "done" /\ dump # None
        /\ dump # None => /\ hpc = "done"
                          /\ dump.Timestamp <= Len(events)
                          /\ events[dump.Timestamp] = "timestamp"
                          /\ events[dump.Timestamp - 1] = "dumpResponse"

C10_Witness ==
    /\ Captured /\ events = EventOrder /\ sinkCalls = 1 /\ sinkArg = dump
    /\ realWritten # <<>>

\* C11: once the go statement has run for a captured request, the
\* middleware's function has returned whatever dumpAction does afterwards
\* (not started, blocked inside, returned, failed), and the process goes on
\* serving requests.
C11_SinkIndependent ==
    (Captured /\ sink # "none") => pc = "returned" /\ ~crashed

\* the header names of the model
HeaderNames == {ContentEncoding, ACAO, ACAH, XFoo, Origin}

\* C12: behind the request header middleware configured with headers, the
\* handler finds in r.Header, for every configured K, exactly the one value
\* headers[K], whether the request came with no, one or several values of K,
\* and every other header as the client sent it.
C12_RequestHeaderSet ==
    (mw = "reqHeader" /\ hpc # "idle")
        => \A k \in HeaderNames :
             IF k \in DOMAIN cfg
             THEN k \in DOMAIN reqHeader /\ reqHeader[k] = <<cfg[k]>>
             ELSE Vals(reqHeader, k) = Vals(origHeader, k)

C12_Witness ==
    /\ mw = "reqHeader" /\ hpc = "running"
    /\ cfg = (XFoo :> "bar")
    /\ Vals(origHeader, XFoo) = <<"a", "b">>
    /\ Vals(reqHeader, XFoo) = <<"bar">>
    /\ Vals(reqHeader, Origin) = <<"o1">>

\* C13: every middleware (logging, dump with and without OPTIONS, request
\* header, response header) calls next.ServeHTTP at most once, and has called
\* it once by the time its own function has ended.
C13_NextOnce ==
    /\ nextCalls <= 1
    /\ (hpc # "idle") = (nextCalls = 1)
    /\ pc \in {"returned", "panicked"} => nextCalls = 1 /\ hpc = "done"

C13_Witness ==
    /\ Captured /\ pc = "returned" /\ sink # "none"
    /\ nextCalls = 1 /\ hpc = "done" /\ handlerWritten # <<>>

\* C14: a Write on a ResponseSnifferingWriter that the real writer fails
\* returns the real writer's error to the handler and leaves BytesBuffer as
\* it was before the call, so that the bytes of the failed write are not in
\* the record's body.
C14_FailedWriteDropped ==
    [][(hw = "sw" /\ handlerWritten' # handlerWritten /\ writeFailed')
           => (ret'.err = "werr" /\ BytesBuffer' = BytesBuffer)]_vars

\* C15: in every call of WriteHeader on the rewriteResponseWriter, each
\* header K of the overlay holds exactly the overlay's values in the real
\* writer's header map when the call ends, whatever the handler had set for
\* K, and when this call is the one that sends the status, the headers sent
\* with it hold the overlay's values for K.
C15_OverlayReplaces ==
    [][(hw = "rw" /\ headerCalls' # headerCalls)
           => \A k \in DOMAIN RewriteHeader :
                /\ k \in DOMAIN header' /\ header'[k] = RewriteHeader[k]
                /\ realStatus = 0 => k \in DOMAIN sentHeader' /\ sentHeader'[k] = RewriteHeader[k]]_vars

C15_Witness ==
    /\ hw = "rw" /\ headerCalls # <<>> /\ handlerWritten = <<>>
    /\ XFoo \in DOMAIN cfg
    /\ Vals(handlerHeader, XFoo) = <<"h">>
    /\ Vals(header, XFoo) = <<"bar">>
    /\ Vals(sentHeader, XFoo) = <<"bar">>

Last(q) == q[Len(q)]

\* C16: once the handler has called WriteHeader on the
\* ResponseSnifferingWriter, sw.Status is the argument of the last call, the
\* real writer's WriteHeader has been called with the same arguments in the
\* same order, and the StatusCode of the response snapshot and of the record
\* is the argument of the last call.
C16_LastStatus ==
    (hw = "sw" /\ headerCalls # <<>>)
        => /\ swStatus = Last(headerCalls)
           /\ realHeaderCalls = headerCalls
           /\ responseData # None => responseData.StatusCode = Last(headerCalls)
           /\ dump # None => dump.Response.StatusCode = Last(headerCalls)
           /\ sinkArg # None => sinkArg.Response.StatusCode = Last(headerCalls)

C16_Witness ==
    /\ hw = "sw" /\ headerCalls = <<StatusOK, 404>>
    /\ realHeaderCalls = headerCalls
    /\ sinkArg # None /\ sinkArg.Response.StatusCode = 404

\* what request i's own sniffer holds as status: the argument of the last
\* WriteHeader of request i's handler
StatusOwn(i) ==
    IF reqs[i].calls = <<>> THEN NewSnifferStatus ELSE Last(reqs[i].calls)

\* C17: with several GET requests in flight at once, under every
\* interleaving of their steps, no two requests use the same sniffer, each
\* request's sniffer holds the bytes and the status of that request's handler
\* only, and the record its sink gets holds that request's body, that
\* handler's bytes and that handler's status.
C17_Isolation ==
    \A i \in Reqs :
        /\ \A j \in Reqs \ {i} : SnifferOf(i) # SnifferOf(j)
        /\ reqs[i].pc # "entry"
              => /\ sniffers[SnifferOf(i)].BytesBuffer = reqs[i].written
                 /\ sniffers[SnifferOf(i)].Status = StatusOwn(i)
        /\ reqs[i].sinkArg # None
              => /\ reqs[i].sinkArg.Request.Body = ConcBody(i)
                 /\ reqs[i].sinkArg.Response.Body = reqs[i].written
                 /\ reqs[i].sinkArg.Response.StatusCode = StatusOwn(i)
                 /\ reqs[i].realWritten = reqs[i].written

C17_Witness ==
    /\ reqs[1].sinkArg # None /\ reqs[2].sinkArg # None
    /\ reqs[1].sinkArg.Response.Body = <<0, 0>>
    /\ reqs[2].sinkArg.Response.Body = <<1>>
    /\ reqs[1].sinkArg.Response.StatusCode = 404
    /\ reqs[2].sinkArg.Response.StatusCode = StatusOK
    /\ reqs[1].sinkArg.Timestamp > reqs[2].sinkArg.Timestamp

\* C18: once the dump middleware has returned for a captured request, the
\* StatusCode of the record is the status the real writer sent to the
\* client, whether the handler called WriteHeader never, once or several
\* times.
C18_StatusAsSent ==
    (Captured /\ pc = "returned" /\ dump # None)
        => dump.Response.StatusCode = realStatus

\* C19: when the configuration of the response header middleware does not
\* name Access-Control-Allow-Origin, a call of WriteHeader on the
\* rewriteResponseWriter leaves every header the configuration does not name
\* as the handler set it, also when the handler set
\* Access-Control-Allow-Origin itself.
C19_OnlyConfigured ==
    (hw = "rw" /\ ACAO \notin DOMAIN cfg)
        => \A k \in HeaderNames \ DOMAIN cfg :
             /\ Vals(header, k) = Vals(handlerHeader, k)
             /\ realStatus # 0 => Vals(sentHeader, k) = Vals(handlerHeader, k)

ValueSet(v) == {v[n] : n \in 1..Len(v)}

\* the configuration has Access-Control-Allow-Origin: * and the request came
\* without an Origin header
StarNoOrigin ==
    /\ hw = "rw"
    /\ ACAO \in DOMAIN cfg /\ cfg[ACAO] = "*"
    /\ Vals(origHeader, Origin) = <<>>

\* C20: with Access-Control-Allow-Origin: * configured and no Origin in the
\* request, a call of WriteHeader on the rewriteResponseWriter leaves
\* Access-Control-Allow-Origin without a value, whatever the handler had set,
\* and Access-Control-Allow-Headers as the handler set it; when the call is
\* the one that sends the status, that is what goes out; and * never goes
\* out as a value of Access-Control-Allow-Origin.
C20_NoOriginNoStar ==
    [][StarNoOrigin
          => /\ "*" \notin ValueSet(Vals(sentHeader', ACAO))
             /\ headerCalls' # headerCalls
                  => /\ Vals(header', ACAO) = <<>>
                     /\ Vals(header', ACAH) = Vals(handlerHeader, ACAH)
                     /\ realStatus = 0
                          => /\ Vals(sentHeader', ACAO) = <<>>
                             /\ Vals(sentHeader', ACAH) = Vals(handlerHeader, ACAH)]_vars

C20_Witness ==
    /\ StarNoOrigin /\ headerCalls # <<>> /\ handlerWritten = <<>> /\ realStatus # 0
    /\ Vals(handlerHeader, ACAO) = <<"h">>
    /\ Vals(handlerHeader, ACAH) = <<>>
    /\ Vals(sentHeader, ACAO) = <<>>
    /\ Vals(sentHeader, ACAH) = <<>>

====
